---- MODULE Spec2Model ----
(***************************************************************************)
(* Live-alert notification client of BitbyBit: the two page scripts        *)
(* web/static/dashboard.js and web/static/live_monitoring.js.  Each opens  *)
(* one WebSocket and reacts to its open / message / error / close events   *)
(* by writing to the passive display slots, the status banner and toasts.  *)
(* Time is counted in ticks of TickMs milliseconds.                        *)
(***************************************************************************)
EXTENDS Integers, Sequences, FiniteSets, TLC

VARIABLES
    location,    \* window.location of the page: its protocol and host
    wsUrl,       \* the URL the script passed to new WebSocket
    page,        \* which script runs: "dashboard" or "live_monitoring"
    hasLive,     \* the document has an element with id 'live-data'
    hasAlerts,   \* the document has an element with id 'alerts-area'
    liveText,    \* textContent of 'live-data'
    alertsText,  \* textContent of 'alerts-area'
    conn,        \* connection state of ws
    body,        \* the elements the scripts appended to document.body, in order
    timers,      \* pending setTimeout callbacks, in scheduling order
    nextId,      \* identity of the next element document.createElement returns
    lastFrame,   \* history: the frame handed to ws.onmessage last
    lastMsg,     \* history: the value JSON.parse returned last
    toastLog,    \* history: the showToast calls made, in call order
    nEvents,     \* history: number of transport events delivered
    lastEvent    \* history: the handler or callback that ran last

vars == <<location, wsUrl, page, hasLive, hasAlerts, liveText, alertsText, conn, body,
          timers, nextId, lastFrame, lastMsg, toastLog, nEvents, lastEvent>>

-----------------------------------------------------------------------------
(* Bounds of the model *)

MaxEvents == 3        \* transport events (open, message, error, close) in one run

(* Program constants *)

StatusDwellMs == 3500 \* setStatus: setTimeout(..., 3500)
ToastDwellMs == 5500  \* showToast: setTimeout(..., 5500)

RECURSIVE GCD(_, _)
GCD(a, b) == IF b = 0 THEN a ELSE GCD(b, a % b)

\* one tick of model time, in milliseconds: the coarsest grid on which both
\* dwell times are whole numbers of ticks
TickMs == GCD(StatusDwellMs, ToastDwellMs)
StatusDwell == StatusDwellMs \div TickMs
ToastDwell == ToastDwellMs \div TickMs

-----------------------------------------------------------------------------
(* JSON values, as JSON.parse returns them *)

JUndefined == [k |-> "undefined", s |-> "", f |-> <<>>]
JNull == [k |-> "null", s |-> "", f |-> <<>>]
JStr(s) == [k |-> "str", s |-> s, f |-> <<>>]
JObj(fields) == [k |-> "obj", s |-> "", f |-> fields]

\* v.key : undefined when the property is missing (a read on null or
\* undefined throws instead, see Throws)
Get(v, key) ==
    IF v.k = "obj" /\ \E i \in 1..Len(v.f) : v.f[i][1] = key
    THEN v.f[CHOOSE i \in 1..Len(v.f) : v.f[i][1] = key][2]
    ELSE JUndefined

\* a property read on v raises TypeError
Throws(v) == v.k \in {"null", "undefined"}

Truthy(v) == \/ v.k = "obj"
             \/ v.k = "str" /\ v.s # ""

\* v === "lit"
StrictEq(v, lit) == v.k = "str" /\ v.s = lit

\* `${v}`
ToStr(v) ==
    CASE v.k = "str" -> v.s
      [] v.k = "null" -> "null"
      [] v.k = "undefined" -> "undefined"
      [] v.k = "obj" -> "[object Object]"

RECURSIVE Pad(_)
Pad(n) == IF n = 0 THEN "" ELSE " " \o Pad(n - 1)

RECURSIVE Stringify(_, _)
RECURSIVE StringifyFields(_, _, _)
\* JSON.stringify(v, null, 2), v at nesting depth `ind` spaces
Stringify(v, ind) ==
    CASE v.k = "null" -> "null"
      [] v.k = "str" -> "\"" \o v.s \o "\""
      [] v.k = "obj" ->
            IF Len(v.f) = 0 THEN "{}"
            ELSE "{\n" \o StringifyFields(v.f, 1, ind + 2) \o "\n" \o Pad(ind) \o "}"

StringifyFields(fs, i, ind) ==
    LET one == Pad(ind) \o "\"" \o fs[i][1] \o "\": " \o Stringify(fs[i][2], ind)
    IN IF i = Len(fs) THEN one
       ELSE one \o ",\n" \o StringifyFields(fs, i + 1, ind)

PrettyPrint(v) == Stringify(v, 0)

-----------------------------------------------------------------------------
(* Frames the transport delivers: event.data *)

Threat(loc, lvl) ==
    JObj(<< <<"type", JStr("instant_threat")>>,
            <<"data", JObj(<< <<"location", JStr(loc)>>,
                              <<"threat_level", JStr(lvl)>> >>)>> >>)

Values ==
    { JNull,
      JObj(<< <<"type", JStr("update")>>,
              <<"data", JObj(<< <<"location", JStr("Goa")>>,
                                <<"threat_level", JStr("CRITICAL")>> >>)>> >>),
      JObj(<< <<"type", JStr("instant_threat")>> >>),
      JObj(<< <<"type", JStr("instant_threat")>>,
              <<"data", JObj(<< <<"location", JStr("Goa")>> >>)>> >>),
      Threat("Goa", "LOW"),
      Threat("Goa", "critical"),
      Threat("Chennai", "CRITICAL"),
      Threat("Goa", "HIGH") }

BadFrame == [valid |-> FALSE, value |-> JUndefined]
NoFrame == [valid |-> FALSE, value |-> JNull]
Frames == {BadFrame} \cup {[valid |-> TRUE, value |-> v] : v \in Values}

-----------------------------------------------------------------------------
(* ws.onmessage, as functions of the decoded message *)

\* SeverityToasts with a plain else in place of the else-if
SeverityToasts_PlainElse(d) ==
    IF StrictEq(Get(d, "threat_level"), "CRITICAL")
    THEN << [message |-> "CRITICAL THREAT: " \o ToStr(Get(d, "location")),
             level |-> "danger"] >>
    ELSE << [message |-> "HIGH THREAT: " \o ToStr(Get(d, "location")),
             level |-> "warning"] >>

\* the if / else-if on data.threat_level: the showToast calls it makes
SeverityToasts(d) ==
    IF StrictEq(Get(d, "threat_level"), "CRITICAL")
    THEN << [message |-> "CRITICAL THREAT: " \o ToStr(Get(d, "location")),
             level |-> "danger"] >>
    ELSE IF StrictEq(Get(d, "threat_level"), "HIGH")
    THEN << [message |-> "HIGH THREAT: " \o ToStr(Get(d, "location")),
             level |-> "warning"] >>
    ELSE << >>

\* dashboard.js: alertArea && data.type === 'instant_threat' && data.data
\* (with alertArea present, data.type on null throws and ends the handler)
DashboardIsThreat(alertArea, v) ==
    /\ alertArea
    /\ ~Throws(v)
    /\ StrictEq(Get(v, "type"), "instant_threat")
    /\ Truthy(Get(v, "data"))

\* live_monitoring.js: alert.type === 'instant_threat' && alert.data &&
\* alert.data.threat_level (alert.type on null throws and ends the handler)
MonitoringIsThreat(v) ==
    /\ ~Throws(v)
    /\ StrictEq(Get(v, "type"), "instant_threat")
    /\ Truthy(Get(v, "data"))
    /\ Truthy(Get(Get(v, "data"), "threat_level"))

\* the showToast calls one message makes, in call order
ToastCalls(pg, alertArea, v) ==
    IF pg = "dashboard"
    THEN IF DashboardIsThreat(alertArea, v)
         THEN SeverityToasts(Get(v, "data")) ELSE << >>
    ELSE IF MonitoringIsThreat(v)
         THEN SeverityToasts(Get(v, "data")) ELSE << >>

\* LiveAfter with += in place of =
LiveAfter_Appends(pg, liveArea, old, v) ==
    IF pg = "dashboard" /\ liveArea THEN old \o PrettyPrint(v) ELSE old

\* textContent of 'live-data' after the handler ran on v
LiveAfter(pg, liveArea, old, v) ==
    IF pg = "dashboard" /\ liveArea THEN PrettyPrint(v) ELSE old

\* AlertsAfter with dashboard.js mirroring every message as live_monitoring.js does
AlertsAfter_WholeMessage(pg, alertArea, old, v) ==
    IF alertArea THEN PrettyPrint(v) ELSE old

\* textContent of 'alerts-area' after the handler ran on v
AlertsAfter(pg, alertArea, old, v) ==
    IF pg = "dashboard"
    THEN IF DashboardIsThreat(alertArea, v)
         THEN PrettyPrint(Get(v, "data")) ELSE old
    ELSE IF alertArea THEN PrettyPrint(v) ELSE old

-----------------------------------------------------------------------------
(* The script's children of document.body: the banner and the toasts *)

NoElement == [id |-> 0, domId |-> "", text |-> "", bg |-> ""]

Banners(b) == SelectSeq(b, LAMBDA e : e.domId = "ws-status")
Toasts(b) == SelectSeq(b, LAMBDA e : e.domId = "")

\* document.getElementById(domId): the first such element in the body
getElementById(b, domId) ==
    IF \E i \in 1..Len(b) : b[i].domId = domId
    THEN b[CHOOSE i \in 1..Len(b) :
               /\ b[i].domId = domId
               /\ \A j \in 1..(i - 1) : b[j].domId # domId]
    ELSE NoElement

\* el.remove(): detaches the element; nothing happens when it is detached
RemoveElement(b, id) == SelectSeq(b, LAMBDA e : e.id # id)

-----------------------------------------------------------------------------
(* setStatus and showToast *)

\* stat.style.background = isError ? '#c92a2a' : '#2776ea'
StatusBackground(isError) == IF isError THEN "#c92a2a" ELSE "#2776ea"

\* BodyAfterSetStatus without the getElementById lookup
BodyAfterSetStatus_AlwaysCreates(b, id, msg, isError) ==
    Append(b, [id |-> id, domId |-> "ws-status", text |-> msg,
               bg |-> StatusBackground(isError)])

\* the body after setStatus(msg, isError): the element getElementById finds
\* gets the text; when there is none a new one is styled and appended
BodyAfterSetStatus(b, id, msg, isError) ==
    LET found == getElementById(b, "ws-status")
    IN IF found = NoElement
       THEN Append(b, [id |-> id, domId |-> "ws-status", text |-> msg,
                       bg |-> StatusBackground(isError)])
       ELSE [i \in 1..Len(b) |->
                IF b[i].id = found.id THEN [b[i] EXCEPT !.text = msg] ELSE b[i]]

StatusTimer(el) == [kind |-> "stat", el |-> el, left |-> StatusDwell]

\* the timers after setStatus: one more callback, on the element it wrote to
TimersAfterSetStatus(ts, b, id) ==
    LET found == getElementById(b, "ws-status")
    IN Append(ts, StatusTimer(IF found = NoElement THEN id ELSE found.id))

setStatus(msg, isError) ==
    /\ body' = BodyAfterSetStatus(body, nextId, msg, isError)
    /\ timers' = TimersAfterSetStatus(timers, body, nextId)
    /\ nextId' = IF getElementById(body, "ws-status") = NoElement
                 THEN nextId + 1 ELSE nextId

\* colors[level] || colors.info
ToastColor(level) ==
    CASE level = "info" -> "#2563eb"
      [] level = "success" -> "#22c55e"
      [] level = "danger" -> "#dc2626"
      [] level = "warning" -> "#fbbf24"
      [] OTHER -> "#2563eb"

\* ToastTimer with the banner's delay in place of the toast's
ToastTimer_BannerDelay(el) == [kind |-> "toast", el |-> el, left |-> StatusDwell]

ToastTimer(el) == [kind |-> "toast", el |-> el, left |-> ToastDwell]

RECURSIVE ToastElements(_, _)
\* the elements showToast creates for a sequence of calls, from identity id on
ToastElements(calls, id) ==
    IF calls = << >> THEN << >>
    ELSE << [id |-> id, domId |-> "", text |-> Head(calls).message,
             bg |-> ToastColor(Head(calls).level)] >>
         \o ToastElements(Tail(calls), id + 1)

\* showToast for each call: append the element to the body, schedule its removal
showToasts(calls) ==
    LET els == ToastElements(calls, nextId)
    IN /\ body' = body \o els
       /\ timers' = timers \o [i \in 1..Len(els) |-> ToastTimer(els[i].id)]
       /\ nextId' = nextId + Len(els)
       /\ toastLog' = toastLog \o calls

-----------------------------------------------------------------------------
(* The connection's event handlers *)

\* the pages the scripts may be served on
Locations ==
    [protocol : {"http:", "https:"}, host : {"localhost:8000", "bitbybit.example"}]

\* `ws://${window.location.host}/ws`
WebSocketUrl(loc) == "ws://" \o loc.host \o "/ws"

\* the document and the connection once the script has run
InitPage ==
    /\ wsUrl = WebSocketUrl(location)
    /\ page \in {"dashboard", "live_monitoring"}
    /\ hasLive \in BOOLEAN
    /\ hasAlerts \in BOOLEAN
    /\ liveText = ""
    /\ alertsText = ""
    /\ conn = "Connecting"
    /\ body = << >>
    /\ timers = << >>
    /\ nextId = 1
    /\ lastFrame = NoFrame
    /\ lastMsg = JUndefined
    /\ toastLog = << >>
    /\ nEvents = 0
    /\ lastEvent = "init"

\* the page served as the README runs it, on http://localhost:8000
Init ==
    /\ location = [protocol |-> "http:", host |-> "localhost:8000"]
    /\ InitPage

\* the page served on any of the Locations
InitAnyLocation ==
    /\ location \in Locations
    /\ InitPage

\* the text ws.onopen publishes
OpenText(pg) ==
    IF pg = "dashboard" THEN "Connected to live updates"
    ELSE "Connected to live alerts"

\* ws.onopen that also writes its text into the passive surfaces
OnOpen_WritesMirror ==
    /\ conn = "Connecting"
    /\ nEvents < MaxEvents
    /\ nEvents' = nEvents + 1
    /\ conn' = "Open"
    /\ setStatus(OpenText(page), FALSE)
    /\ liveText' = IF page = "dashboard" /\ hasLive THEN OpenText(page) ELSE liveText
    /\ alertsText' = IF hasAlerts THEN OpenText(page) ELSE alertsText
    /\ lastEvent' = "open"
    /\ UNCHANGED <<location, wsUrl, page, hasLive, hasAlerts,
                   lastFrame, lastMsg, toastLog>>

\* ws.onopen
OnOpen ==
    /\ conn = "Connecting"
    /\ nEvents < MaxEvents
    /\ nEvents' = nEvents + 1
    /\ conn' = "Open"
    /\ setStatus(OpenText(page), FALSE)
    /\ lastEvent' = "open"
    /\ UNCHANGED <<location, wsUrl, page, hasLive, hasAlerts, liveText, alertsText,
                   lastFrame, lastMsg, toastLog>>

\* ws.onmessage that catches the parse error and reports it in the banner
OnMessage_ReportsBadFrame(frame) ==
    /\ conn \in {"Open", "Errored"}
    /\ nEvents < MaxEvents
    /\ nEvents' = nEvents + 1
    /\ lastFrame' = frame
    /\ lastMsg' = IF frame.valid THEN frame.value ELSE lastMsg
    /\ lastEvent' = "message"
    /\ IF frame.valid
       THEN /\ liveText' = LiveAfter(page, hasLive, liveText, frame.value)
            /\ alertsText' = AlertsAfter(page, hasAlerts, alertsText, frame.value)
            /\ showToasts(ToastCalls(page, hasAlerts, frame.value))
       ELSE /\ setStatus("Invalid message", TRUE)
            /\ UNCHANGED <<liveText, alertsText, toastLog>>
    /\ UNCHANGED <<location, wsUrl, page, hasLive, hasAlerts, conn>>

\* ws.onmessage: JSON.parse throws on a frame that is not JSON, before
\* anything is written
OnMessage(frame) ==
    /\ conn \in {"Open", "Errored"}
    /\ nEvents < MaxEvents
    /\ nEvents' = nEvents + 1
    /\ lastFrame' = frame
    /\ lastMsg' = IF frame.valid THEN frame.value ELSE lastMsg
    /\ lastEvent' = "message"
    /\ IF frame.valid
       THEN /\ liveText' = LiveAfter(page, hasLive, liveText, frame.value)
            /\ alertsText' = AlertsAfter(page, hasAlerts, alertsText, frame.value)
            /\ showToasts(ToastCalls(page, hasAlerts, frame.value))
       ELSE UNCHANGED <<liveText, alertsText, body, timers, nextId, toastLog>>
    /\ UNCHANGED <<location, wsUrl, page, hasLive, hasAlerts, conn>>

\* ws.onerror that treats the error as the end of the connection
OnError_Closes ==
    /\ conn \in {"Connecting", "Open", "Errored"}
    /\ nEvents < MaxEvents
    /\ nEvents' = nEvents + 1
    /\ conn' = "Closed"
    /\ setStatus("WebSocket error occurred", TRUE)
    /\ lastEvent' = "error"
    /\ UNCHANGED <<location, wsUrl, page, hasLive, hasAlerts, liveText, alertsText,
                   lastFrame, lastMsg, toastLog>>

\* ws.onerror that also clears the passive surfaces, as ws.onclose does
OnError_ClearsMirror ==
    /\ conn \in {"Connecting", "Open", "Errored"}
    /\ nEvents < MaxEvents
    /\ nEvents' = nEvents + 1
    /\ conn' = "Errored"
    /\ setStatus("WebSocket error occurred", TRUE)
    /\ liveText' = IF page = "dashboard" /\ hasLive
                   THEN "WebSocket disconnected" ELSE liveText
    /\ alertsText' = IF hasAlerts THEN "WebSocket disconnected" ELSE alertsText
    /\ lastEvent' = "error"
    /\ UNCHANGED <<location, wsUrl, page, hasLive, hasAlerts, lastFrame, lastMsg, toastLog>>

\* ws.onerror
OnError ==
    /\ conn \in {"Connecting", "Open", "Errored"}
    /\ nEvents < MaxEvents
    /\ nEvents' = nEvents + 1
    /\ conn' = "Errored"
    /\ setStatus("WebSocket error occurred", TRUE)
    /\ lastEvent' = "error"
    /\ UNCHANGED <<location, wsUrl, page, hasLive, hasAlerts, liveText, alertsText,
                   lastFrame, lastMsg, toastLog>>

\* text a close event leaves in 'live-data'
LiveAfterClose(pg, liveArea, old) ==
    IF pg = "dashboard" /\ liveArea THEN "WebSocket disconnected" ELSE old

\* AlertsAfterClose with the overwrite left out of live_monitoring.js
AlertsAfterClose_DashboardOnly(pg, alertArea, old) ==
    IF pg = "dashboard" /\ alertArea THEN "WebSocket disconnected" ELSE old

\* text a close event leaves in 'alerts-area'
AlertsAfterClose(pg, alertArea, old) ==
    IF alertArea THEN "WebSocket disconnected" ELSE old

\* ws.onclose that opens a new connection
OnClose_Reconnects ==
    /\ conn # "Closed"
    /\ nEvents < MaxEvents
    /\ nEvents' = nEvents + 1
    /\ conn' = "Connecting"
    /\ setStatus("WebSocket disconnected", TRUE)
    /\ liveText' = LiveAfterClose(page, hasLive, liveText)
    /\ alertsText' = AlertsAfterClose(page, hasAlerts, alertsText)
    /\ lastEvent' = "close"
    /\ UNCHANGED <<location, wsUrl, page, hasLive, hasAlerts, lastFrame, lastMsg, toastLog>>

\* ws.onclose
OnClose ==
    /\ conn # "Closed"
    /\ nEvents < MaxEvents
    /\ nEvents' = nEvents + 1
    /\ conn' = "Closed"
    /\ setStatus("WebSocket disconnected", TRUE)
    /\ liveText' = LiveAfterClose(page, hasLive, liveText)
    /\ alertsText' = AlertsAfterClose(page, hasAlerts, alertsText)
    /\ lastEvent' = "close"
    /\ UNCHANGED <<location, wsUrl, page, hasLive, hasAlerts, lastFrame, lastMsg, toastLog>>

-----------------------------------------------------------------------------
(* Time and the timer callbacks *)

Due == {i \in 1..Len(timers) : timers[i].left = 0}

\* the callback the event loop runs next: the due one scheduled first
NextDue == CHOOSE j \in Due : \A k \in Due : j <= k

RemoveAt(seq, i) == SubSeq(seq, 1, i - 1) \o SubSeq(seq, i + 1, Len(seq))

\* one tick passes; a callback that is due runs before time moves on
Tick ==
    /\ timers # << >>
    /\ Due = {}
    /\ timers' = [i \in 1..Len(timers) |-> [timers[i] EXCEPT !.left = @ - 1]]
    /\ lastEvent' = "tick"
    /\ UNCHANGED <<location, wsUrl, page, hasLive, hasAlerts, liveText, alertsText, conn, body,
                   nextId, lastFrame, lastMsg, toastLog, nEvents>>

\* setStatus's callback looking the banner up again instead of using the
\* element it captured
StatTimerFires_RemovesCurrent ==
    /\ Due # {}
    /\ timers[NextDue].kind = "stat"
    /\ body' = RemoveElement(body, getElementById(body, "ws-status").id)
    /\ timers' = RemoveAt(timers, NextDue)
    /\ lastEvent' = "statTimer"
    /\ UNCHANGED <<location, wsUrl, page, hasLive, hasAlerts, liveText, alertsText, conn,
                   nextId, lastFrame, lastMsg, toastLog, nEvents>>

\* setStatus's callback: if (stat) stat.remove(), on the element it captured
StatTimerFires ==
    /\ Due # {}
    /\ timers[NextDue].kind = "stat"
    /\ body' = RemoveElement(body, timers[NextDue].el)
    /\ timers' = RemoveAt(timers, NextDue)
    /\ lastEvent' = "statTimer"
    /\ UNCHANGED <<location, wsUrl, page, hasLive, hasAlerts, liveText, alertsText, conn,
                   nextId, lastFrame, lastMsg, toastLog, nEvents>>

\* showToast's callback: toast.remove()
ToastTimerFires ==
    /\ Due # {}
    /\ timers[NextDue].kind = "toast"
    /\ body' = RemoveElement(body, timers[NextDue].el)
    /\ timers' = RemoveAt(timers, NextDue)
    /\ lastEvent' = "toastTimer"
    /\ UNCHANGED <<location, wsUrl, page, hasLive, hasAlerts, liveText, alertsText, conn,
                   nextId, lastFrame, lastMsg, toastLog, nEvents>>

Next ==
    \/ OnOpen
    \/ \E frame \in Frames : OnMessage(frame)
    \/ OnError
    \/ OnClose
    \/ Tick
    \/ StatTimerFires
    \/ ToastTimerFires

Spec == Init /\ [][Next]_vars

\* the same client on a page served over either protocol
SpecAnyLocation == InitAnyLocation /\ [][Next]_vars

\* the event loop lets time pass and runs every callback that is due
FairSpec ==
    Spec /\ WF_vars(Tick) /\ WF_vars(StatTimerFires) /\ WF_vars(ToastTimerFires)

-----------------------------------------------------------------------------
(* Properties *)

Disconnected == "WebSocket disconnected"
ErrorOccurred == "WebSocket error occurred"
ErrorStyle == "#c92a2a"

\* the message is no CRITICAL/HIGH instant threat: its type is not
\* "instant_threat", or its data is absent, or its threat_level is absent or
\* another value
NotEscalating(v) ==
    \/ Get(v, "type") # JStr("instant_threat")
    \/ Get(v, "data") = JUndefined
    \/ Get(Get(v, "data"), "threat_level") \notin {JStr("CRITICAL"), JStr("HIGH")}

\* the toast a CRITICAL/HIGH threat at loc is to raise
ExpectedToast(loc, lvl) ==
    [message |-> lvl \o " THREAT: " \o loc,
     level |-> IF lvl = "CRITICAL" THEN "danger" ELSE "warning"]

\* the showToast calls the step made
NewToastCalls == SubSeq(toastLog', Len(toastLog) + 1, Len(toastLog'))

\* everything a passive surface can show of a message
MessageTexts ==
    {PrettyPrint(v) : v \in Values}
        \cup {PrettyPrint(Get(v, "data")) : v \in {w \in Values : Truthy(Get(w, "data"))}}

\* C1 (as stated): while the connection is not closed, once a message was
\* decoded, every passive surface the script writes to and that is present
\* ('live-data' and 'alerts-area' in dashboard.js, 'alerts-area' in
\* live_monitoring.js) holds the pretty-printed whole last message.
C1_EverySurfaceShowsLastMessage ==
    (conn # "Closed" /\ lastMsg # JUndefined) =>
        /\ (page = "dashboard" /\ hasLive) => liveText = PrettyPrint(lastMsg)
        /\ hasAlerts => alertsText = PrettyPrint(lastMsg)

\* C1 (amended): while the connection is not closed, once a message was
\* decoded, the script's mirror surface when present ('live-data' in
\* dashboard.js, 'alerts-area' in live_monitoring.js) holds exactly the
\* pretty-printed whole last decoded message, threat or not.
C1_MirrorShowsLastMessage ==
    (conn # "Closed" /\ lastMsg # JUndefined) =>
        /\ (page = "dashboard" /\ hasLive) => liveText = PrettyPrint(lastMsg)
        /\ (page = "live_monitoring" /\ hasAlerts) =>
               alertsText = PrettyPrint(lastMsg)

\* C1 witness: a CRITICAL threat raised a toast and was then overwritten in
\* 'live-data' by a LOW message, shown pretty-printed.
C1_Witness ==
    /\ page = "dashboard" /\ hasLive /\ conn = "Open"
    /\ toastLog # << >>
    /\ lastMsg = Threat("Goa", "LOW")
    /\ liveText = "{\n  \"type\": \"instant_threat\",\n  \"data\": {\n    \"location\": \"Goa\",\n    \"threat_level\": \"LOW\"\n  }\n}"

\* C2: a decoded message that is no CRITICAL/HIGH instant threat creates no
\* toast; apart from the passive surfaces the handler changes nothing.
C2_NonThreatRaisesNoToast ==
    [][(lastEvent' = "message" /\ lastFrame'.valid
            /\ NotEscalating(lastFrame'.value))
        => /\ toastLog' = toastLog
           /\ body' = body
           /\ timers' = timers
           /\ nextId' = nextId
           /\ conn' = conn]_vars

\* C2 witness: a lower-case "critical" threat was mirrored and raised nothing.
C2_Witness ==
    /\ lastEvent = "message"
    /\ lastFrame = [valid |-> TRUE, value |-> Threat("Goa", "critical")]
    /\ toastLog = << >>
    /\ Toasts(body) = << >>
    /\ hasAlerts /\ alertsText # ""

\* C3: a message {type: "instant_threat", data: {location: L, threat_level:
\* T}} with T CRITICAL or HIGH creates exactly one toast, "T THREAT: L", of
\* severity danger for CRITICAL and warning for HIGH, in both scripts and in
\* every display state.
C3_ThreatRaisesItsToast ==
    [][\A loc \in {"Chennai", "Goa"}, lvl \in {"CRITICAL", "HIGH"} :
          (lastEvent' = "message"
              /\ lastFrame' = [valid |-> TRUE, value |-> Threat(loc, lvl)])
          => /\ NewToastCalls = << ExpectedToast(loc, lvl) >>
             /\ Len(Toasts(body')) = Len(Toasts(body)) + 1
             /\ Toasts(body')[Len(Toasts(body'))].text = ExpectedToast(loc, lvl).message
             /\ Toasts(body')[Len(Toasts(body'))].bg
                    = ToastColor(ExpectedToast(loc, lvl).level)]_vars

\* C4: N CRITICAL/HIGH messages create N toasts, one each in delivery order:
\* every such message adds one toast element after those already displayed,
\* which all stay, and every other message adds none.
C4_ToastsAccumulate ==
    [][(lastEvent' = "message" /\ lastFrame'.valid)
        => IF NotEscalating(lastFrame'.value)
           THEN /\ Len(toastLog') = Len(toastLog)
                /\ Toasts(body') = Toasts(body)
           ELSE /\ Len(toastLog') = Len(toastLog) + 1
                /\ Len(Toasts(body')) = Len(Toasts(body)) + 1
                /\ SubSeq(Toasts(body'), 1, Len(Toasts(body))) = Toasts(body)]_vars

\* C5: the toasts a message raises do not depend on which passive slots the
\* document has: the same script raises the same toasts for it whether
\* 'alerts-area' is present or not.
C5_ToastsIgnoreSlots ==
    [][(lastEvent' = "message" /\ lastFrame'.valid)
        => \A alertArea \in BOOLEAN :
              NewToastCalls = ToastCalls(page, alertArea, lastFrame'.value)]_vars

\* C6: once the connection is Closed, every passive surface the script
\* writes to and that is present ('live-data' and 'alerts-area' in
\* dashboard.js, 'alerts-area' in live_monitoring.js) holds exactly
\* "WebSocket disconnected", and no surface shows message data.
C6_ClosedShowsDisconnected ==
    conn = "Closed" =>
        /\ (page = "dashboard" /\ hasLive) => liveText = Disconnected
        /\ hasAlerts => alertsText = Disconnected
        /\ liveText \notin MessageTexts
        /\ alertsText \notin MessageTexts

\* C6 witness: the connection closed after a message had been mirrored.
C6_Witness ==
    /\ conn = "Closed"
    /\ lastMsg = Threat("Goa", "HIGH")
    /\ hasAlerts /\ alertsText = Disconnected
    /\ page = "live_monitoring"

\* C7: a banner that shows "WebSocket error occurred" or "WebSocket
\* disconnected" is error-styled.
C7_ErrorTextIsErrorStyled ==
    \A i \in 1..Len(body) :
        (body[i].domId = "ws-status" /\ body[i].text \in {ErrorOccurred, Disconnected})
            => body[i].bg = ErrorStyle

\* C8: an error event leaves the passive surfaces and the toasts as they
\* were, publishes "WebSocket error occurred" and makes the state Errored;
\* a surface comes to show "WebSocket disconnected" only by a close event.
C8_ErrorLeavesMirror ==
    [][/\ lastEvent' = "error"
          => /\ liveText' = liveText
             /\ alertsText' = alertsText
             /\ Toasts(body') = Toasts(body)
             /\ toastLog' = toastLog
             /\ conn' = "Errored"
             /\ getElementById(body', "ws-status").text = ErrorOccurred
       /\ (\/ liveText' = Disconnected /\ liveText # Disconnected
           \/ alertsText' = Disconnected /\ alertsText # Disconnected)
          => lastEvent' = "close"]_vars

\* C8 witness: an error arrived while a message and its toast were displayed.
C8_Witness ==
    /\ lastEvent = "error" /\ conn = "Errored"
    /\ hasAlerts /\ page = "live_monitoring"
    /\ lastMsg = Threat("Chennai", "CRITICAL")
    /\ alertsText = PrettyPrint(lastMsg)
    /\ Len(Toasts(body)) = 1

\* C9: the banner leaves the screen only when the dwell of the latest status
\* update has elapsed: at the step that removes it no banner callback of a
\* later update is still waiting.
C9_BannerKeepsItsDwell ==
    [][(Banners(body) # << >> /\ Banners(body') = << >>)
        => \A i \in 1..Len(timers) :
              timers[i].kind = "stat" => timers[i].left = 0]_vars

\* C10: the body holds at most one status banner element.
C10_AtMostOneBanner == Len(Banners(body)) <= 1

\* C10 witness: an error was published into the banner that the open had
\* created and that was still displayed.
C10_Witness ==
    /\ Len(Banners(body)) = 1
    /\ lastEvent = "error"
    /\ Banners(body)[1].text = ErrorOccurred
    /\ Banners(body)[1].id = 1
    /\ Len(timers) >= 2

ToastTimers(ts) == SelectSeq(ts, LAMBDA t : t.kind = "toast")
StatTimers(ts) == SelectSeq(ts, LAMBDA t : t.kind = "stat")

\* C11: every toast is removed exactly 5.5 time-units (ToastDwell ticks)
\* after its creation: its callback starts at ToastDwell, loses one per tick
\* and nothing else, and runs at 0 removing the oldest toast; no message,
\* error, close or banner callback changes a toast or its callback; and
\* every toast is eventually removed (whenever toasts are displayed, a later
\* moment has none of them left).
C11_ToastLivesItsDwell ==
    /\ [][LET T == ToastTimers(timers)
              U == ToastTimers(timers')
          IN /\ Len(U) = Len(Toasts(body'))
             /\ \A i \in 1..Len(U) :
                   /\ U[i].el = Toasts(body')[i].id
                   /\ U[i].left \in 0..ToastDwell
             /\ lastEvent' = "tick" =>
                   /\ Toasts(body') = Toasts(body)
                   /\ U = [i \in 1..Len(T) |-> [T[i] EXCEPT !.left = @ - 1]]
             /\ lastEvent' = "toastTimer" =>
                   /\ T # << >> /\ T[1].left = 0
                   /\ U = Tail(T)
                   /\ Toasts(body') = Tail(Toasts(body))
             /\ lastEvent' = "message" =>
                   /\ Len(U) = Len(T) + Len(NewToastCalls)
                   /\ SubSeq(U, 1, Len(T)) = T
                   /\ SubSeq(Toasts(body'), 1, Len(T)) = Toasts(body)
                   /\ \A i \in (Len(T) + 1)..Len(U) : U[i].left = ToastDwell
             /\ lastEvent' \in {"open", "error", "close", "statTimer"} =>
                   /\ U = T
                   /\ Toasts(body') = Toasts(body)]_vars
    /\ (Toasts(body) # << >>) ~> (Toasts(body) = << >>)

\* C11 witness: the first of two toasts was removed while the second, raised
\* later, is still displayed.
C11_Witness ==
    /\ lastEvent = "toastTimer"
    /\ Len(toastLog) = 2
    /\ Len(Toasts(body)) = 1
    /\ Toasts(body)[1].text = toastLog[2].message

TransportEvents == {"open", "message", "error", "close"}

\* C12: Closed is terminal and nothing reconnects: the connection is never
\* Connecting again once it left that state, the open handler runs only from
\* Connecting, and once Closed no transport event is handled, the state
\* stays Closed, and the passive surfaces and the toasts change only by a
\* toast callback running.
C12_ClosedIsTerminal ==
    [][/\ conn # "Connecting" => conn' # "Connecting"
       /\ lastEvent' = "open" => conn = "Connecting"
       /\ conn = "Closed" =>
             /\ conn' = "Closed"
             /\ lastEvent' \notin TransportEvents
             /\ nEvents' = nEvents
             /\ lastMsg' = lastMsg /\ lastFrame' = lastFrame
             /\ liveText' = liveText /\ alertsText' = alertsText
             /\ toastLog' = toastLog
             /\ \/ Toasts(body') = Toasts(body)
                \/ lastEvent' = "toastTimer" /\ Toasts(body') = Tail(Toasts(body))]_vars

\* C12 witness: after the close the banner's callback has run and the body
\* is empty, with events still left to deliver.
C12_Witness ==
    /\ conn = "Closed"
    /\ lastEvent = "statTimer"
    /\ nEvents < MaxEvents
    /\ body = << >>
    /\ timers = << >>

\* C13: the endpoint is ws(s)://<current-host>/ws, the scheme mirroring the
\* page's: wss:// on a page served over https, ws:// over http.
C13_SchemeMirrorsPage ==
    wsUrl = (IF location.protocol = "https:" THEN "wss://" ELSE "ws://")
                \o location.host \o "/ws"

\* C14 (as stated): the connection state changes only by Connecting -> Open
\* on open, Open -> Errored on error, and any state -> Closed on close.
C14_OnlyListedTransitions ==
    [][conn' # conn =>
          \/ conn = "Connecting" /\ conn' = "Open" /\ lastEvent' = "open"
          \/ conn = "Open" /\ conn' = "Errored" /\ lastEvent' = "error"
          \/ conn' = "Closed" /\ lastEvent' = "close"]_vars

\* C14 (amended): the connection state changes only by Connecting -> Open on
\* open, Connecting -> Errored or Open -> Errored on error, and any state ->
\* Closed on close; an open leaves Connecting for Open, an error leaves the
\* client Errored and never Closed, a close leaves it Closed, and no message
\* or timer callback changes the state.
C14_Transitions ==
    [][/\ conn' # conn =>
             \/ conn = "Connecting" /\ conn' = "Open" /\ lastEvent' = "open"
             \/ conn \in {"Connecting", "Open"} /\ conn' = "Errored"
                    /\ lastEvent' = "error"
             \/ conn' = "Closed" /\ lastEvent' = "close"
       /\ lastEvent' = "open" => conn = "Connecting" /\ conn' = "Open"
       /\ lastEvent' = "error" => conn # "Closed" /\ conn' = "Errored"
       /\ lastEvent' = "close" => conn # "Closed" /\ conn' = "Closed"
       /\ lastEvent' \notin {"open", "error", "close"} => conn' = conn]_vars

\* C14 witness: an error was reported before the handshake completed.
C14_Witness ==
    /\ conn = "Errored"
    /\ lastEvent = "error"
    /\ nEvents = 1
    /\ getElementById(body, "ws-status").text = ErrorOccurred

\* C15: a frame that is not valid JSON leaves the passive surfaces, the
\* toasts, the banner, the timers and the connection state exactly as they
\* were; and the valid frame that follows it is processed as usual: the
\* script's mirror shows it, and where the script raises toasts (in
\* live_monitoring.js, in dashboard.js with 'alerts-area') a CRITICAL or HIGH
\* threat raises its toast.
C15_BadFrameIsConfined ==
    [][/\ (lastEvent' = "message" /\ ~lastFrame'.valid) =>
             /\ liveText' = liveText /\ alertsText' = alertsText
             /\ body' = body /\ timers' = timers /\ nextId' = nextId
             /\ toastLog' = toastLog
             /\ conn' = conn
             /\ lastMsg' = lastMsg
       /\ (lastEvent' = "message" /\ lastFrame'.valid /\ lastFrame = BadFrame) =>
             /\ (page = "dashboard" /\ hasLive) =>
                    liveText' = PrettyPrint(lastFrame'.value)
             /\ (page = "live_monitoring" /\ hasAlerts) =>
                    alertsText' = PrettyPrint(lastFrame'.value)
             /\ \A loc \in {"Chennai", "Goa"}, lvl \in {"CRITICAL", "HIGH"} :
                    (lastFrame'.value = Threat(loc, lvl)
                        /\ (page = "live_monitoring" \/ hasAlerts))
                    => NewToastCalls = << ExpectedToast(loc, lvl) >>]_vars

\* C15 witness: a frame that is not JSON arrived while a threat and its
\* toast were displayed, and left them displayed.
C15_Witness ==
    /\ lastEvent = "message"
    /\ lastFrame = BadFrame
    /\ page = "live_monitoring" /\ hasAlerts
    /\ lastMsg = Threat("Chennai", "CRITICAL")
    /\ alertsText = PrettyPrint(lastMsg)
    /\ Len(Toasts(body)) = 1
    /\ conn = "Open"

\* the message of Values whose type is not "instant_threat"
UpdateMessage ==
    JObj(<< <<"type", JStr("update")>>,
            <<"data", JObj(<< <<"location", JStr("Goa")>>,
                              <<"threat_level", JStr("CRITICAL")>> >>)>> >>)

\* the message is an instant threat with its data present
IsThreatWithData(v) ==
    /\ Get(v, "type") = JStr("instant_threat")
    /\ Get(v, "data") # JUndefined

\* C16: in dashboard.js with 'alerts-area' present, a message whose type is
\* "instant_threat" and whose data is present puts the pretty-printed data
\* payload into 'alerts-area'; every other message, every undecodable frame
\* and every other step but a close leaves 'alerts-area' unchanged, while a
\* decoded message still updates 'live-data'.
C16_AlertsAreaKeepsLastThreat ==
    [][(page = "dashboard" /\ hasAlerts) =>
          /\ (lastEvent' = "message" /\ lastFrame'.valid
                  /\ IsThreatWithData(lastFrame'.value))
             => alertsText' = PrettyPrint(Get(lastFrame'.value, "data"))
          /\ (lastEvent' = "message"
                  /\ ~(lastFrame'.valid /\ IsThreatWithData(lastFrame'.value)))
             => alertsText' = alertsText
          /\ (lastEvent' = "message" /\ lastFrame'.valid /\ hasLive)
             => liveText' = PrettyPrint(lastFrame'.value)
          /\ lastEvent' \notin {"message", "close"} => alertsText' = alertsText]_vars

\* C16 witness: a HIGH threat's data stays in 'alerts-area' after a later
\* message of another type replaced it in 'live-data'.
C16_Witness ==
    /\ page = "dashboard" /\ hasAlerts /\ hasLive
    /\ conn = "Open"
    /\ lastMsg = UpdateMessage
    /\ liveText = PrettyPrint(UpdateMessage)
    /\ alertsText = "{\n  \"location\": \"Goa\",\n  \"threat_level\": \"HIGH\"\n}"

\* C17: on the same events and with the same slots, dashboard.js and
\* live_monitoring.js raise the same toasts: for every decoded message the
\* toasts the running script raises are those either script raises for it
\* (their creation and removal times follow from the calls).
C17_ScriptsRaiseSameToasts ==
    [][(lastEvent' = "message" /\ lastFrame'.valid)
        => \A pg \in {"dashboard", "live_monitoring"} :
              NewToastCalls = ToastCalls(pg, hasAlerts, lastFrame'.value)]_vars

\* C18: a message event leaves the banner and the banner callbacks as they
\* are; open, error and close events raise no toast and leave the toasts and
\* their callbacks as they are; open and error events leave the passive
\* surfaces as they are.
C18_ChannelsByEventKind ==
    [][/\ lastEvent' = "message" =>
             /\ Banners(body') = Banners(body)
             /\ StatTimers(timers') = StatTimers(timers)
       /\ lastEvent' \in {"open", "error", "close"} =>
             /\ toastLog' = toastLog
             /\ Toasts(body') = Toasts(body)
             /\ ToastTimers(timers') = ToastTimers(timers)
       /\ lastEvent' \in {"open", "error"} =>
             /\ liveText' = liveText
             /\ alertsText' = alertsText]_vars

\* C18 witness: a threat raised its toast while the banner of the open was
\* displayed, and the banner and its callback are as the open left them.
C18_Witness ==
    /\ lastEvent = "message"
    /\ nEvents = 2
    /\ Len(Toasts(body)) = 1
    /\ Len(Banners(body)) = 1
    /\ Banners(body)[1].text = OpenText(page)
    /\ Len(StatTimers(timers)) = 1

\* C19: no banner outlives its dwell: while a banner is displayed the
\* callback of the most recent status update is pending on that very
\* element, with at most 3.5 time-units (StatusDwell ticks) left, counted
\* down by every tick; a banner leaves only by a banner callback scheduled
\* on that element, so a callback scheduled on an earlier element removes
\* nothing; and once the connection is closed the banner disappears and
\* does not come back.
C19_BannerLeavesInTime ==
    /\ [](Banners(body) # << >> =>
            LET S == StatTimers(timers)
            IN /\ S # << >>
               /\ S[Len(S)].el = Banners(body)[1].id
               /\ \A i \in 1..Len(S) : S[i].left \in 0..StatusDwell)
    /\ [][LET S == StatTimers(timers)
              R == StatTimers(timers')
          IN /\ lastEvent' = "tick" =>
                   R = [i \in 1..Len(S) |-> [S[i] EXCEPT !.left = @ - 1]]
             /\ lastEvent' \in {"open", "error", "close"} =>
                   /\ Len(R) = Len(S) + 1
                   /\ R[Len(R)].left = StatusDwell
             /\ Len(Banners(body')) < Len(Banners(body)) =>
                   /\ lastEvent' = "statTimer"
                   /\ timers[NextDue].left = 0
                   /\ timers[NextDue].el = Banners(body)[1].id
             /\ (lastEvent' = "statTimer" /\ Banners(body) # << >>
                     /\ timers[NextDue].el # Banners(body)[1].id)
                => body' = body
             /\ (conn = "Closed" /\ Banners(body) = << >>)
                => Banners(body') = << >>]_vars
    /\ (conn = "Closed") ~> (Banners(body) = << >>)

\* C19 witness: after the close, the callback of an earlier status update
\* ran on the element it had captured, long removed, and left the banner the
\* close created.
C19_Witness ==
    /\ conn = "Closed"
    /\ lastEvent = "statTimer"
    /\ Len(Banners(body)) = 1
    /\ Banners(body)[1].id = 2
    /\ Banners(body)[1].text = Disconnected
    /\ Len(StatTimers(timers)) = 1

====
